---- MODULE Spec2Model ----
(***************************************************************************)
(* PolyChat-AI client: the chat page (client/app/page.tsx).  One instance  *)
(* of HomePage per browser tab; the tabs of one origin share localStorage  *)
(* and the session.  Text is a sequence of symbols (one symbol stands for  *)
(* one character or one indivisible run of characters), so that chunking,  *)
(* line splitting, prefix tests and payload parsing are computed.          *)
(***************************************************************************)
EXTENDS Integers, Sequences, FiniteSets, TLC

Tabs == {1, 2}
Ids == {1, 2}

\* `null` conversation id / absent `c` parameter (Number(c) of an absent c)
NoId == 0
\* guestCountState >= 3
GuestLimit == 3

\* Bounds of the model
MaxMsgs == 5
MaxText == 1
MaxBurst == 2
MaxQueue == 1

SP == "SP"
CR == "CR"
LF == "LF"
DataTag == "data:"
ModelTag == "[model:"
MetaOpen == "{meta:{conversationId:"
MetaClose == "}}"
ContentOpen == "{content:"
ContentClose == "}"
TextSyms == {"a", "b", ModelTag}
IdSyms == {"1", "2"}

\* String(next) and Number(raw || "0") on the stored counter; an absent or
\* non-numeric item reads as 0
Absent == "null"
StrOf(n) == CASE n = 0 -> "0" [] n = 1 -> "1" [] n = 2 -> "2" [] n = 3 -> "3" [] OTHER -> "4"
NumOf(s) == CASE s = "1" -> 1 [] s = "2" -> 2 [] s = "3" -> 3 [] s = "4" -> 4 [] OTHER -> 0

IdOfSym(s) == IF s = "1" THEN 1 ELSE 2
SymOfId(i) == IF i = 1 THEN "1" ELSE "2"

(***************************************************************************)
(* The event stream the backend writes: POST /api/v1/chat/stream answers   *)
(* with lines `data: <json>` followed by a blank line.                     *)
(***************************************************************************)
MetaFrame(i) == [kind |-> "meta", id |-> i, text |-> <<>>, crlf |-> FALSE]
ContentFrame(x, c) == [kind |-> "content", id |-> NoId, text |-> x, crlf |-> c]
BadFrame == [kind |-> "bad", id |-> NoId, text |-> <<>>, crlf |-> FALSE]

Frames ==
  {MetaFrame(i) : i \in Ids}
    \cup {ContentFrame(<<"a">>, FALSE), ContentFrame(<<"b">>, TRUE),
          ContentFrame(<<ModelTag, "a">>, FALSE), BadFrame}

Payload(f) ==
  CASE f.kind = "meta" -> <<MetaOpen, SymOfId(f.id), MetaClose>>
    [] f.kind = "content" -> <<ContentOpen>> \o f.text \o <<ContentClose>>
    [] OTHER -> <<ContentOpen, "a">>

Eol(f) == IF f.crlf THEN <<CR, LF>> ELSE <<LF>>

EncodeFrame(f) == <<DataTag, SP>> \o Payload(f) \o Eol(f) \o Eol(f)

(***************************************************************************)
(* String operations of the read loop                                      *)
(***************************************************************************)
\* chunk.split(/\r?\n/), folded from the left: `done` are the finished
\* lines, `cur` the line being read
RECURSIVE SplitFrom(_, _, _)
SplitFrom(s, done, cur) ==
  IF s = <<>> THEN Append(done, cur)
  ELSE IF Head(s) = LF
    THEN LET line == IF cur # <<>> /\ cur[Len(cur)] = CR
                       THEN SubSeq(cur, 1, Len(cur) - 1) ELSE cur
         IN SplitFrom(Tail(s), Append(done, line), <<>>)
    ELSE SplitFrom(Tail(s), done, Append(cur, Head(s)))

SplitLines(chunk) == SplitFrom(chunk, <<>>, <<>>)

\* line.startsWith("data: ")
StartsWithData(line) == Len(line) >= 2 /\ line[1] = DataTag /\ line[2] = SP

IsSpace(c) == c \in {SP, CR, LF}

RECURSIVE TrimLeft(_)
TrimLeft(s) == IF s # <<>> /\ IsSpace(Head(s)) THEN TrimLeft(Tail(s)) ELSE s

RECURSIVE TrimRight(_)
TrimRight(s) ==
  IF s # <<>> /\ IsSpace(s[Len(s)]) THEN TrimRight(SubSeq(s, 1, Len(s) - 1)) ELSE s

\* line.slice("data: ".length).trim()
Trim(s) == TrimRight(TrimLeft(s))
DataOf(line) == Trim(SubSeq(line, 3, Len(line)))

\* JSON.parse(data): the two payload shapes the backend writes; anything
\* else (a truncated payload included) throws
ParseJSON(data) ==
  IF Len(data) = 3 /\ data[1] = MetaOpen /\ data[2] \in IdSyms /\ data[3] = MetaClose
    THEN [ok |-> TRUE, meta |-> IdOfSym(data[2]), content |-> <<>>]
  ELSE IF Len(data) >= 2 /\ data[1] = ContentOpen /\ data[Len(data)] = ContentClose
          /\ \A i \in 2..(Len(data) - 1) : data[i] \in TextSyms
    THEN [ok |-> TRUE, meta |-> NoId, content |-> SubSeq(data, 2, Len(data) - 1)]
  ELSE [ok |-> FALSE, meta |-> NoId, content |-> <<>>]

\* a test that recognises no provider tag
StartsWithNoTag(x) == FALSE

\* obj.content.startsWith("[model:")
StartsWithModelTag(x) == x # <<>> /\ x[1] = ModelTag


(***************************************************************************)
(* State.  Every component field is indexed by the tab that renders it.    *)
(***************************************************************************)
VARIABLES
  open,                \* the tabs that are open
  user,                \* session?.user is set (the session is shared)
  store,               \* localStorage["guest_msg_count"]
  events,              \* storage events queued for each tab (newValue)
  messages,            \* useState<Message[]>
  input,               \* useState("")
  loading,             \* useState(false)
  conversationId,      \* useState<number | null>
  searchC,             \* searchParams.get("c") as a number, NoId if absent
  suppressUrlLoadRef,  \* useRef(false)
  guestCountState,     \* useState(0), after the mount effect has read the store
  run,                 \* the handleSend call in progress: its position, the
                       \* values its closure captured, its local buffer; and
                       \* for the record the text the backend has written
                       \* (sentText), whether the user has removed c from
                       \* the URL since the call started (away), and whether
                       \* the call started in a session with no locator, no
                       \* message and nothing pending, and the user has not
                       \* navigated since (fresh); and which payloads that
                       \* must add nothing the backend has written (odd)
  wire,                \* response bytes written by the backend, not yet read
  replacing,           \* the c of the router.replace that has not taken effect yet
  fetches,             \* the conversation ids whose history fetch is in flight
  effect,              \* the URL effect is due to run (and what scheduled it)
  lastSend,            \* what the last handleSend call did
  lastTerm,            \* how the last stream ended
  lastHistory,         \* how the history fetch that has just resolved ended
  refreshed,           \* whether the step just taken dispatched
                       \* "conversations:refresh", or read a Meta frame and
                       \* dispatched nothing ("ignored")
  jar,                 \* the browser's guest_id cookie ("" when it has none)
  reqs,                \* the requests to /api/proxy/..., in the order sent
  uuids                \* how many identifiers crypto.randomUUID() has made

pageVars ==
  <<open, user, store, events, messages, input, loading, conversationId, searchC,
    suppressUrlLoadRef, guestCountState, run, wire, replacing, fetches, effect,
    lastSend, lastTerm, lastHistory, refreshed>>

proxyVars == <<jar, reqs, uuids>>

vars == <<pageVars, proxyVars>>

NoSend == [t \in Tabs |-> "none"]
NoRefresh == [t \in Tabs |-> "none"]

Msg(r, c) == [role |-> r, content |-> c]

IdleRun ==
  [pc |-> "idle", conversationId |-> NoId, guest |-> FALSE, guestCountState |-> 0,
   assistantBuffer |-> <<>>, sentText |-> <<>>, away |-> FALSE, fresh |-> FALSE,
   odd |-> {}]

\* GET /api/v1/conversations/{id}/messages: newest first
HistoryOf(id) ==
  IF id = 1 THEN <<Msg("assistant", <<"b">>), Msg("user", <<"hi">>)>>
  ELSE <<Msg("assistant", <<"b", "b">>)>>

\* the list as the backend returned it
AsListed(s) == s

RECURSIVE Reverse(_)
Reverse(s) == IF s = <<>> THEN <<>> ELSE Append(Reverse(Tail(s)), Head(s))

InitWith(tabs, counts) ==
  /\ open = tabs
  /\ user \in BOOLEAN
  /\ store \in counts
  /\ events = [t \in Tabs |-> <<>>]
  /\ messages = [t \in Tabs |-> <<>>]
  /\ input = [t \in Tabs |-> <<>>]
  /\ loading = [t \in Tabs |-> FALSE]
  /\ conversationId = [t \in Tabs |-> NoId]
  /\ searchC = [t \in Tabs |-> NoId]
  /\ suppressUrlLoadRef = [t \in Tabs |-> FALSE]
  /\ guestCountState = [t \in Tabs |-> IF t \in tabs THEN NumOf(store) ELSE 0]
  /\ run = [t \in Tabs |-> IdleRun]
  /\ wire = [t \in Tabs |-> <<>>]
  /\ replacing = [t \in Tabs |-> NoId]
  /\ fetches = [t \in Tabs |-> {}]
  /\ effect = [t \in Tabs |-> "none"]
  /\ lastSend = NoSend
  /\ lastTerm = [t \in Tabs |-> "none"]
  /\ lastHistory = NoSend
  /\ refreshed = NoRefresh
  /\ jar = ""
  /\ reqs = <<>>
  /\ uuids = 0

\* one tab; a signed-in user, or a guest with one message left
Init == InitWith({1}, {StrOf(GuestLimit - 1)})

\* Effects run after the render that scheduled them, before anything else
NoEffect == \A t \in Tabs : effect[t] = "none"

(***************************************************************************)
(* Guest limit                                                             *)
(***************************************************************************)
\* the limit compared with > instead of >=
guestBlockedAbove(t) == ~user /\ guestCountState[t] > GuestLimit

guestBlocked(t) == ~user /\ guestCountState[t] >= GuestLimit

\* the send condition on the input as typed, not trimmed
canSendUntrimmed(t) == input[t] # <<>> /\ ~loading[t] /\ ~guestBlocked(t)

\* the send condition without the test of loading
canSendWhileLoading(t) == Trim(input[t]) # <<>> /\ ~guestBlocked(t)

canSend(t) == Trim(input[t]) # <<>> /\ ~loading[t] /\ ~guestBlocked(t)

\* a listener that takes the event and leaves the counter as it was
StorageEventIgnored(t) ==
  /\ NoEffect
  /\ t \in open
  /\ events[t] # <<>>
  /\ events' = [events EXCEPT ![t] = Tail(events[t])]
  /\ lastSend' = NoSend /\ lastHistory' = NoSend /\ refreshed' = NoRefresh /\ UNCHANGED proxyVars
  /\ UNCHANGED <<open, user, store, messages, input, loading, conversationId, searchC,
                 suppressUrlLoadRef, guestCountState, run, wire, replacing, fetches,
                 effect, lastTerm>>

\* onStorage
StorageEvent(t) ==
  /\ NoEffect
  /\ t \in open
  /\ events[t] # <<>>
  /\ guestCountState' = [guestCountState EXCEPT ![t] = NumOf(Head(events[t]))]
  /\ events' = [events EXCEPT ![t] = Tail(events[t])]
  /\ lastSend' = NoSend /\ lastHistory' = NoSend /\ refreshed' = NoRefresh /\ UNCHANGED proxyVars
  /\ UNCHANGED <<open, user, store, messages, input, loading, conversationId, searchC,
                 suppressUrlLoadRef, run, wire, replacing, fetches, effect,
                 lastTerm>>

\* the identity collaborator signs the user in
SignIn ==
  /\ NoEffect
  /\ ~user
  /\ user' = TRUE
  /\ lastSend' = NoSend /\ lastHistory' = NoSend /\ refreshed' = NoRefresh /\ UNCHANGED proxyVars
  /\ UNCHANGED <<open, store, events, messages, input, loading, conversationId, searchC,
                 suppressUrlLoadRef, guestCountState, run, wire, replacing, fetches,
                 effect, lastTerm>>

\* Composer onChange / the quick-action buttons
SetInput(t, v) ==
  /\ NoEffect
  /\ t \in open
  /\ v # input[t]
  /\ input' = [input EXCEPT ![t] = v]
  /\ lastSend' = NoSend /\ lastHistory' = NoSend /\ refreshed' = NoRefresh /\ UNCHANGED proxyVars
  /\ UNCHANGED <<open, user, store, events, messages, loading, conversationId, searchC,
                 suppressUrlLoadRef, guestCountState, run, wire, replacing, fetches,
                 effect, lastTerm>>

\* lines 211-221: the updater that rewrites the last assistant message
RECURSIVE LastAssistant(_, _)
LastAssistant(msgs, i) ==
  IF i = 0 THEN 0
  ELSE IF msgs[i].role = "assistant" THEN i
  ELSE LastAssistant(msgs, i - 1)

\* an updater that scans from the start of the list
UpdateFirstAssistant(msgs, buf) ==
  LET A == {i \in 1..Len(msgs) : msgs[i].role = "assistant"}
  IN IF A = {} THEN msgs
     ELSE [msgs EXCEPT ![CHOOSE i \in A : \A j \in A : i <= j].content = buf]

UpdateLastAssistant(msgs, buf) ==
  LET i == LastAssistant(msgs, Len(msgs))
  IN IF i = 0 THEN msgs ELSE [msgs EXCEPT ![i].content = buf]

(***************************************************************************)
(* handleSend                                                              *)
(***************************************************************************)
\* The storage events a setItem(key, next) by tab t queues: one for every other
\* open tab, and none when the stored value does not change
Notify(t, next) ==
  [u \in Tabs |->
    IF u \in open /\ u # t /\ next # store THEN Append(events[u], next) ELSE events[u]]

\* a `finally` block that leaves suppressUrlLoadRef as the stream set it
FinallyKeepsFlag(t, msgs, how) ==
  /\ messages' = [messages EXCEPT ![t] = msgs]
  /\ loading' = [loading EXCEPT ![t] = FALSE]
  /\ UNCHANGED suppressUrlLoadRef
  /\ IF run[t].guest
       THEN LET next == run[t].guestCountState + 1
            IN /\ store' = StrOf(next)
               /\ events' = Notify(t, StrOf(next))
               /\ guestCountState' = [guestCountState EXCEPT ![t] = next]
       ELSE UNCHANGED <<store, events, guestCountState>>
  /\ run' = [run EXCEPT ![t] = [IdleRun EXCEPT !.fresh = run[t].fresh]]
  /\ wire' = [wire EXCEPT ![t] = <<>>]
  /\ effect' = [effect EXCEPT ![t] =
       IF ~loading[t] THEN @ ELSE IF run[t].away THEN "termAway" ELSE "term"]
  /\ lastTerm' = [lastTerm EXCEPT ![t] = how]
  /\ refreshed' = [NoRefresh EXCEPT ![t] = "dispatched"]

\* the `finally` block: msgs is the message list the try/catch leaves
Finally(t, msgs, how) ==
  /\ messages' = [messages EXCEPT ![t] = msgs]
  /\ loading' = [loading EXCEPT ![t] = FALSE]
  /\ suppressUrlLoadRef' = [suppressUrlLoadRef EXCEPT ![t] = FALSE]
  /\ IF run[t].guest
       THEN LET next == run[t].guestCountState + 1
            IN /\ store' = StrOf(next)
               /\ events' = Notify(t, StrOf(next))
               /\ guestCountState' = [guestCountState EXCEPT ![t] = next]
       ELSE UNCHANGED <<store, events, guestCountState>>
  /\ run' = [run EXCEPT ![t] = [IdleRun EXCEPT !.fresh = run[t].fresh]]
  /\ wire' = [wire EXCEPT ![t] = <<>>]
  /\ effect' = [effect EXCEPT ![t] =
       IF ~loading[t] THEN @ ELSE IF run[t].away THEN "termAway" ELSE "term"]
  /\ lastTerm' = [lastTerm EXCEPT ![t] = how]
  /\ refreshed' = [NoRefresh EXCEPT ![t] = "dispatched"]

\* a `catch` block that swallows the error
CatchSilently(msgs, why) == msgs

\* the `catch` block
Catch(msgs, why) == Append(msgs, Msg("system", <<"Error: ", why>>))

\* lines 139-153: the guards, the two appended messages, the request
HandleSend(t) ==
  /\ NoEffect
  /\ t \in open
  /\ IF ~user /\ guestBlocked(t)
       THEN /\ lastSend' = [NoSend EXCEPT ![t] = "alert"]
            /\ UNCHANGED <<messages, input, loading, run, effect, lastTerm>>
     ELSE IF ~canSend(t)
       THEN /\ lastSend' = [NoSend EXCEPT ![t] = "ignored"]
            /\ UNCHANGED <<messages, input, loading, run, effect, lastTerm>>
     ELSE /\ Len(messages[t]) + 3 <= MaxMsgs
          /\ \A u \in open \ {t} : Len(events[u]) < MaxQueue
          /\ lastSend' = [NoSend EXCEPT ![t] = "sent"]
          /\ messages' = [messages EXCEPT ![t] =
               @ \o <<Msg("user", input[t]), Msg("assistant", <<>>)>>]
          /\ input' = [input EXCEPT ![t] = <<>>]
          /\ loading' = [loading EXCEPT ![t] = TRUE]
          /\ run' = [run EXCEPT ![t] =
               [pc |-> "fetching", conversationId |-> conversationId[t],
                guest |-> ~user, guestCountState |-> guestCountState[t],
                assistantBuffer |-> <<>>, sentText |-> <<>>, away |-> FALSE,
                fresh |-> /\ messages[t] = <<>> /\ conversationId[t] = NoId
                          /\ searchC[t] = NoId /\ replacing[t] = NoId
                          /\ fetches[t] = {},
                odd |-> {}]]
          /\ effect' = [effect EXCEPT ![t] = "send"]
          /\ lastTerm' = [lastTerm EXCEPT ![t] = "none"]
  /\ lastHistory' = NoSend /\ refreshed' = NoRefresh /\ UNCHANGED proxyVars
  /\ UNCHANGED <<open, user, store, events, conversationId, searchC, suppressUrlLoadRef,
                 guestCountState, wire, replacing, fetches>>

\* lines 156-171: the response arrives with a success status and a body
FetchResponds(t) ==
  /\ NoEffect
  /\ run[t].pc = "fetching"
  /\ run' = [run EXCEPT ![t].pc = "reading"]
  /\ lastSend' = NoSend /\ lastHistory' = NoSend /\ refreshed' = NoRefresh /\ UNCHANGED proxyVars
  /\ UNCHANGED <<open, user, store, events, messages, input, loading, conversationId,
                 searchC, suppressUrlLoadRef, guestCountState, wire, replacing, fetches,
                 effect, lastTerm>>

\* err.message of a rejected fetch, of the throw on a non-success status, and
\* of a rejected read
Failures == {"Failed to fetch", "Request failed (500)", "network error"}

\* the request is rejected, answered with a non-success status, or the body
\* read fails: the catch block, then the finally block
StreamFails(t, why) ==
  /\ NoEffect
  /\ \/ run[t].pc = "fetching" /\ why \in {"Failed to fetch", "Request failed (500)"}
     \/ run[t].pc = "reading" /\ why = "network error"
  /\ Finally(t, Catch(messages[t], why), "error")
  /\ lastSend' = NoSend /\ lastHistory' = NoSend /\ UNCHANGED proxyVars
  /\ UNCHANGED <<open, user, input, conversationId, searchC, replacing, fetches>>

\* a stop that empties the answer it interrupts
HandleStopRollback(t) ==
  /\ NoEffect
  /\ loading[t]
  /\ Finally(t, Catch(UpdateLastAssistant(messages[t], <<>>), "aborted"), "abort")
  /\ lastSend' = NoSend /\ lastHistory' = NoSend /\ UNCHANGED proxyVars
  /\ UNCHANGED <<open, user, input, conversationId, searchC, replacing, fetches>>

\* a stop whose stream ends but whose loading flag stays set
HandleStopStuck(t) ==
  /\ NoEffect
  /\ loading[t]
  /\ messages' = [messages EXCEPT ![t] = Catch(messages[t], "aborted")]
  /\ run' = [run EXCEPT ![t] = IdleRun]
  /\ wire' = [wire EXCEPT ![t] = <<>>]
  /\ lastTerm' = [lastTerm EXCEPT ![t] = "abort"]
  /\ lastSend' = NoSend /\ lastHistory' = NoSend /\ refreshed' = NoRefresh /\ UNCHANGED proxyVars
  /\ UNCHANGED <<open, user, store, events, input, loading, conversationId, searchC,
                 suppressUrlLoadRef, guestCountState, replacing, fetches, effect>>

\* a stop that ends the stream and skips the finally block's cleanup
HandleStopNoCleanup(t) ==
  /\ NoEffect
  /\ loading[t]
  /\ messages' = [messages EXCEPT ![t] = Catch(messages[t], "aborted")]
  /\ loading' = [loading EXCEPT ![t] = FALSE]
  /\ run' = [run EXCEPT ![t] = IdleRun]
  /\ wire' = [wire EXCEPT ![t] = <<>>]
  /\ effect' = [effect EXCEPT ![t] = "term"]
  /\ lastTerm' = [lastTerm EXCEPT ![t] = "abort"]
  /\ lastSend' = NoSend /\ lastHistory' = NoSend /\ refreshed' = NoRefresh /\ UNCHANGED proxyVars
  /\ UNCHANGED <<open, user, store, events, input, conversationId, searchC,
                 suppressUrlLoadRef, guestCountState, replacing, fetches>>

\* handleStop: abort() rejects the pending fetch or read, whose continuation
\* (catch, finally) runs before the batched render
HandleStop(t) ==
  /\ NoEffect
  /\ loading[t]
  /\ Finally(t, Catch(messages[t], "aborted"), "abort")
  /\ lastSend' = NoSend /\ lastHistory' = NoSend /\ UNCHANGED proxyVars
  /\ UNCHANGED <<open, user, input, conversationId, searchC, replacing, fetches>>

\* reader.read() reports done
ReadDone(t) ==
  /\ NoEffect
  /\ run[t].pc = "reading"
  /\ wire[t] = <<>>
  /\ Finally(t, messages[t], "done")
  /\ lastSend' = NoSend /\ lastHistory' = NoSend /\ UNCHANGED proxyVars
  /\ UNCHANGED <<open, user, input, conversationId, searchC, replacing, fetches>>

(***************************************************************************)
(* The read loop                                                           *)
(***************************************************************************)
\* lines 183-187: what one line of the chunk decodes to; a line that is
\* skipped (no prefix, empty data, a parse error) decodes to nothing
Skipped == [ok |-> FALSE, meta |-> NoId, content |-> <<>>]

DecodeLine(line) ==
  IF ~StartsWithData(line) THEN Skipped
  ELSE IF DataOf(line) = <<>> THEN Skipped
  ELSE ParseJSON(DataOf(line))

\* a loop that a payload that does not parse leaves: the lines that follow
\* it in the chunk are not processed
RECURSIVE DecodeLinesAborts(_)
DecodeLinesAborts(lines) ==
  IF lines = <<>> THEN <<>>
  ELSE IF StartsWithData(Head(lines)) /\ DataOf(Head(lines)) # <<>>
            /\ ~ParseJSON(DataOf(Head(lines))).ok
    THEN <<>>
  ELSE <<DecodeLine(Head(lines))>> \o DecodeLinesAborts(Tail(lines))

RECURSIVE DecodeLines(_)
DecodeLines(lines) ==
  IF lines = <<>> THEN <<>> ELSE <<DecodeLine(Head(lines))>> \o DecodeLines(Tail(lines))

\* lines 188-222: the branches on the parsed payload.  st holds what the loop
\* has written so far; cid is the conversationId the closure captured
\* a meta branch that does not test the locator the call started with
ApplyObjAnyStream(obj, st, cid) ==
  IF ~obj.ok THEN st
  ELSE IF obj.meta # NoId
    THEN [st EXCEPT !.conversationId = obj.meta,
                    !.suppress = TRUE,
                    !.replacing = obj.meta,
                    !.refreshed = TRUE]
  ELSE IF obj.content # <<>> /\ ~StartsWithModelTag(obj.content)
    THEN [st EXCEPT !.buffer = @ \o obj.content,
                    !.messages = UpdateLastAssistant(@, st.buffer \o obj.content)]
  ELSE st

ApplyObj(obj, st, cid) ==
  IF ~obj.ok THEN st
  ELSE IF obj.meta # NoId /\ cid = NoId
    THEN [st EXCEPT !.conversationId = obj.meta,
                    !.suppress = TRUE,
                    !.replacing = obj.meta,
                    !.refreshed = TRUE]
  ELSE IF obj.content # <<>> /\ ~StartsWithModelTag(obj.content)
    THEN [st EXCEPT !.buffer = @ \o obj.content,
                    !.messages = UpdateLastAssistant(@, st.buffer \o obj.content)]
  ELSE st

RECURSIVE ProcessLines(_, _, _)
ProcessLines(objs, st, cid) ==
  IF objs = <<>> THEN st
  ELSE ProcessLines(Tail(objs), ApplyObj(Head(objs), st, cid), cid)

\* the backend writes a burst of frames
RECURSIVE EncodeAll(_)
EncodeAll(fs) == IF fs = <<>> THEN <<>> ELSE EncodeFrame(Head(fs)) \o EncodeAll(Tail(fs))

\* the text a burst is meant to add to the answer: the text of every content
\* payload that does not begin with the provider tag
RECURSIVE TextOf(_)
TextOf(fs) ==
  IF fs = <<>> THEN <<>>
  ELSE (IF Head(fs).kind = "content" /\ Head(fs).text[1] # ModelTag
          THEN Head(fs).text ELSE <<>>) \o TextOf(Tail(fs))

Bursts(F) == UNION {[1..n -> F] : n \in 1..MaxBurst}

\* the chunk holds a line that parses to a Meta frame
MetaIn(objs) == \E j \in 1..Len(objs) : objs[j].ok /\ objs[j].meta # NoId

\* lines 178-226: one pass of the loop over the decoded lines of a chunk that
\* read() returned; rest is what stays unread, sent the text written so far
Read(t, objs, rest, sent) ==
  LET st0 == [messages |-> messages[t], conversationId |-> conversationId[t],
              suppress |-> suppressUrlLoadRef[t], replacing |-> replacing[t],
              buffer |-> run[t].assistantBuffer, refreshed |-> FALSE]
      st == ProcessLines(objs, st0, run[t].conversationId)
  IN /\ wire' = [wire EXCEPT ![t] = rest]
     /\ messages' = [messages EXCEPT ![t] = st.messages]
     /\ conversationId' = [conversationId EXCEPT ![t] = st.conversationId]
     /\ suppressUrlLoadRef' = [suppressUrlLoadRef EXCEPT ![t] = st.suppress]
     /\ replacing' = [replacing EXCEPT ![t] = st.replacing]
     /\ run' = [run EXCEPT ![t].assistantBuffer = st.buffer, ![t].sentText = sent]
     /\ effect' = [effect EXCEPT ![t] =
          IF st.conversationId # conversationId[t] THEN "meta" ELSE @]
     /\ refreshed' = [NoRefresh EXCEPT ![t] =
          IF st.refreshed THEN "dispatched" ELSE IF MetaIn(objs) THEN "ignored" ELSE "none"]
     /\ lastSend' = NoSend /\ lastHistory' = NoSend /\ UNCHANGED proxyVars
     /\ UNCHANGED <<open, user, store, events, input, loading, searchC, guestCountState,
                    fetches, lastTerm>>

\* a burst of whole events as one read returns it: the frames, the text they
\* are meant to add, and what their lines decode to
Delivery(fs) ==
  [frames |-> fs, text |-> TextOf(fs), objs |-> DecodeLines(SplitLines(EncodeAll(fs)))]

SessionFrames == {MetaFrame(1), MetaFrame(2), ContentFrame(<<"a">>, FALSE)}
\* the bursts of a session: the backend writes its Meta frame once, so one
\* read brings at most one
SessionBursts ==
  {fs \in Bursts(SessionFrames) :
     Cardinality({i \in 1..Len(fs) : fs[i].kind = "meta"}) <= 1}
SessionDeliveries == {Delivery(fs) : fs \in SessionBursts}

DecodeFrames == Frames \ {MetaFrame(i) : i \in Ids}
DecodeBursts == Bursts(DecodeFrames)

\* the backend flushes a burst of whole events and one read returns it
Deliver(t, d) ==
  /\ NoEffect
  /\ run[t].pc = "reading"
  /\ wire[t] = <<>>
  /\ Len(run[t].sentText) + Len(d.text) <= MaxText
  /\ Read(t, d.objs, <<>>, run[t].sentText \o d.text)

\* the payloads of a burst that must add nothing: a provider tag, a payload
\* that does not parse
OddIn(fs) ==
  {"tag" : i \in {j \in 1..Len(fs) : fs[j].kind = "content" /\ fs[j].text[1] = ModelTag}}
    \cup {"bad" : i \in {j \in 1..Len(fs) : fs[j].kind = "bad"}}

\* the backend writes a burst of events
ServerEmit(t, fs) ==
  /\ NoEffect
  /\ run[t].pc = "reading"
  /\ wire[t] = <<>>
  /\ Len(run[t].sentText) + Len(TextOf(fs)) <= MaxText
  /\ wire' = [wire EXCEPT ![t] = EncodeAll(fs)]
  /\ run' = [run EXCEPT ![t].sentText = @ \o TextOf(fs), ![t].odd = @ \cup OddIn(fs)]
  /\ lastSend' = NoSend /\ lastHistory' = NoSend /\ refreshed' = NoRefresh /\ UNCHANGED proxyVars
  /\ UNCHANGED <<open, user, store, events, messages, input, loading, conversationId,
                 searchC, suppressUrlLoadRef, guestCountState, replacing, fetches, effect,
                 lastTerm>>

\* one read returns the next n symbols, wherever that cuts the text
ReadChunk(t, n) ==
  /\ NoEffect
  /\ run[t].pc = "reading"
  /\ n \in 1..Len(wire[t])
  /\ Read(t, DecodeLines(SplitLines(SubSeq(wire[t], 1, n))),
          SubSeq(wire[t], n + 1, Len(wire[t])),
          run[t].sentText)

\* an effect without the guard of line 105
UrlEffectUnguarded(t) ==
  /\ effect[t] # "none"
  /\ LET id == searchC[t]
     IN IF id # NoId /\ id # conversationId[t]
          THEN /\ conversationId' = [conversationId EXCEPT ![t] = id]
               /\ fetches' = [fetches EXCEPT ![t] = @ \cup {id}]
               /\ effect' = [effect EXCEPT ![t] = "self"]
               /\ UNCHANGED messages
        ELSE IF id = NoId /\ conversationId[t] # NoId
          THEN /\ conversationId' = [conversationId EXCEPT ![t] = NoId]
               /\ messages' = [messages EXCEPT ![t] = <<>>]
               /\ effect' = [effect EXCEPT ![t] = "self"]
               /\ UNCHANGED fetches
        ELSE /\ effect' = [effect EXCEPT ![t] = "none"]
             /\ UNCHANGED <<conversationId, fetches, messages>>
  /\ lastSend' = NoSend /\ lastHistory' = NoSend /\ refreshed' = NoRefresh /\ UNCHANGED proxyVars
  /\ UNCHANGED <<open, user, store, events, input, loading, searchC, suppressUrlLoadRef,
                 guestCountState, run, wire, replacing, lastTerm>>

\* an effect whose clearing branch clears the locator and keeps the messages
UrlEffectKeepsMessages(t) ==
  /\ effect[t] # "none"
  /\ LET id == searchC[t]
     IN IF suppressUrlLoadRef[t] \/ loading[t]
          THEN /\ effect' = [effect EXCEPT ![t] = "none"]
               /\ UNCHANGED <<conversationId, fetches, messages>>
        ELSE IF id # NoId /\ id # conversationId[t]
          THEN /\ conversationId' = [conversationId EXCEPT ![t] = id]
               /\ fetches' = [fetches EXCEPT ![t] = @ \cup {id}]
               /\ effect' = [effect EXCEPT ![t] = "self"]
               /\ UNCHANGED messages
        ELSE IF id = NoId /\ conversationId[t] # NoId
          THEN /\ conversationId' = [conversationId EXCEPT ![t] = NoId]
               /\ effect' = [effect EXCEPT ![t] = "self"]
               /\ UNCHANGED <<fetches, messages>>
        ELSE /\ effect' = [effect EXCEPT ![t] = "none"]
             /\ UNCHANGED <<conversationId, fetches, messages>>
  /\ lastSend' = NoSend /\ lastHistory' = NoSend /\ refreshed' = NoRefresh /\ UNCHANGED proxyVars
  /\ UNCHANGED <<open, user, store, events, input, loading, searchC, suppressUrlLoadRef,
                 guestCountState, run, wire, replacing, lastTerm>>

(***************************************************************************)
(* Navigation                                                              *)
(***************************************************************************)
\* lines 101-131: the effect on [searchParams, conversationId, loading]
UrlEffect(t) ==
  /\ effect[t] # "none"
  /\ LET id == searchC[t]
     IN IF suppressUrlLoadRef[t] \/ loading[t]
          THEN /\ effect' = [effect EXCEPT ![t] = "none"]
               /\ UNCHANGED <<conversationId, fetches, messages>>
        ELSE IF id # NoId /\ id # conversationId[t]
          THEN /\ conversationId' = [conversationId EXCEPT ![t] = id]
               /\ fetches' = [fetches EXCEPT ![t] = @ \cup {id}]
               /\ effect' = [effect EXCEPT ![t] = "self"]
               /\ UNCHANGED messages
        ELSE IF id = NoId /\ conversationId[t] # NoId
          THEN /\ conversationId' = [conversationId EXCEPT ![t] = NoId]
               /\ messages' = [messages EXCEPT ![t] = <<>>]
               /\ effect' = [effect EXCEPT ![t] = "self"]
               /\ UNCHANGED fetches
        ELSE /\ effect' = [effect EXCEPT ![t] = "none"]
             /\ UNCHANGED <<conversationId, fetches, messages>>
  /\ lastSend' = NoSend /\ lastHistory' = NoSend /\ refreshed' = NoRefresh /\ UNCHANGED proxyVars
  /\ UNCHANGED <<open, user, store, events, input, loading, searchC, suppressUrlLoadRef,
                 guestCountState, run, wire, replacing, lastTerm>>

\* a history fetch whose failure is reported in the conversation
HistoryResolvesReports(t, id, ok) ==
  /\ NoEffect
  /\ id \in fetches[t]
  /\ fetches' = [fetches EXCEPT ![t] = @ \ {id}]
  /\ messages' = [messages EXCEPT ![t] = IF ok THEN Reverse(HistoryOf(id))
                                           ELSE Catch(@, "Failed to fetch")]
  /\ lastSend' = NoSend
  /\ lastHistory' = [NoSend EXCEPT ![t] = IF ok THEN "loaded" ELSE "failed"] /\ refreshed' = NoRefresh /\ UNCHANGED proxyVars
  /\ UNCHANGED <<open, user, store, events, input, loading, conversationId, searchC,
                 suppressUrlLoadRef, guestCountState, run, wire, replacing, effect,
                 lastTerm>>

\* lines 111-119: a history fetch resolves
HistoryResolves(t, id, ok) ==
  /\ NoEffect
  /\ id \in fetches[t]
  /\ fetches' = [fetches EXCEPT ![t] = @ \ {id}]
  /\ messages' = [messages EXCEPT ![t] = IF ok THEN Reverse(HistoryOf(id)) ELSE @]
  /\ lastSend' = NoSend
  /\ lastHistory' = [NoSend EXCEPT ![t] = IF ok THEN "loaded" ELSE "failed"] /\ refreshed' = NoRefresh /\ UNCHANGED proxyVars
  /\ UNCHANGED <<open, user, store, events, input, loading, conversationId, searchC,
                 suppressUrlLoadRef, guestCountState, run, wire, replacing, effect,
                 lastTerm>>

\* the user changes the URL (a link, the address bar); a navigation discards
\* the one that is still pending
UserNavigate(t, c) ==
  /\ NoEffect
  /\ t \in open
  /\ c # searchC[t]
  /\ searchC' = [searchC EXCEPT ![t] = c]
  /\ replacing' = [replacing EXCEPT ![t] = NoId]
  /\ effect' = [effect EXCEPT ![t] = "nav"]
  /\ run' = [run EXCEPT ![t].away = (run[t].pc # "idle" /\ c = NoId),
                         ![t].fresh = FALSE]
  /\ lastSend' = NoSend /\ lastHistory' = NoSend /\ refreshed' = NoRefresh /\ UNCHANGED proxyVars
  /\ UNCHANGED <<open, user, store, events, messages, input, loading, conversationId,
                 suppressUrlLoadRef, guestCountState, wire, fetches, lastTerm>>

\* a router.replace(`/?c=${newId}`) of the meta branch takes effect
ReplaceLands(t) ==
  /\ NoEffect
  /\ replacing[t] # NoId
  /\ searchC' = [searchC EXCEPT ![t] = replacing[t]]
  /\ replacing' = [replacing EXCEPT ![t] = NoId]
  /\ effect' = [effect EXCEPT ![t] = IF replacing[t] # searchC[t] THEN "rewrite" ELSE @]
  /\ lastSend' = NoSend /\ lastHistory' = NoSend /\ refreshed' = NoRefresh /\ UNCHANGED proxyVars
  /\ UNCHANGED <<open, user, store, events, messages, input, loading, conversationId,
                 suppressUrlLoadRef, guestCountState, run, wire, fetches,
                 lastTerm>>

(***************************************************************************)
(* The proxy: app/api/proxy/[...path]/route.ts.  The browser sends every    *)
(* request of the page to /api/proxy/<path>; the handler forwards it to the *)
(* backend with the identity headers and relays the answer.                 *)
(***************************************************************************)
MaxReqs == 2

Methods == {"GET", "HEAD", "POST"}
Statuses == {200, 302}
HeaderNames == {"host", "connection", "content-type", "authorization", "x-guest-id"}
NoHeader == "none"
NoBody == <<-1>>

\* request bodies, as bytes: a text, and a body holding a byte that is no UTF-8
Bodies == {<<98>>, <<255>>}

\* req.text(): the body decoded as UTF-8, a malformed byte read as U+FFFD
RECURSIVE ReqText(_)
ReqText(bytes) ==
  IF bytes = <<>> THEN <<>>
  ELSE <<IF Head(bytes) < 128 THEN Head(bytes) ELSE 65533>> \o ReqText(Tail(bytes))

\* fetch(url, { body }): a string body is sent as its UTF-8 encoding
RECURSIVE FetchBody(_)
FetchBody(text) ==
  IF text = <<>> THEN <<>>
  ELSE (IF Head(text) < 128 THEN <<Head(text)>> ELSE <<239, 191, 189>>)
         \o FetchBody(Tail(text))

\* line 62: maxAge, in seconds
CookieMaxAge == 60 * 60 * 24 * 365

\* lines 57-63: the options of the guest_id cookie
CookieOptions ==
  [path |-> "/", sameSite |-> "lax", httpOnly |-> FALSE, secure |-> FALSE,
   maxAge |-> CookieMaxAge]
NoCookie == [path |-> "", sameSite |-> "", httpOnly |-> FALSE, secure |-> FALSE,
             maxAge |-> 0]

\* crypto.randomUUID(): the n-th identifier it makes
Uuid(n) == CASE n = 1 -> "u1" [] n = 2 -> "u2" [] n = 3 -> "u3" [] OTHER -> "u4"

\* `Bearer ${token}`
Bearer(token) == IF token = "tok" THEN "Bearer tok" ELSE "Bearer forged"

\* the headers the browser sends; a client can add identity headers of its own
BrowserHeaders(forged) ==
  [k \in HeaderNames |->
    CASE k = "host" -> "app"
      [] k = "connection" -> "keep-alive"
      [] k = "content-type" -> "application/json"
      [] k = "authorization" -> IF forged THEN Bearer("forged") ELSE NoHeader
      [] OTHER -> IF forged THEN "forged" ELSE NoHeader]

\* getToken({ req, raw: true, secret }): the session token, null, or a throw
Tokens == {"tok", "null", "throws"}
TokenOutcomes == IF user THEN {"tok", "throws"} ELSE {"null", "throws"}

\* lines 15-20: every inbound header but host and connection
CopyHeaders(h) ==
  [k \in HeaderNames |-> IF k \in {"host", "connection"} THEN NoHeader ELSE h[k]]

\* a handler that attaches no credential
WithTokenDropped(h, token) == h

\* a handler that attaches a credential whatever getToken did
WithTokenUnverified(h, token) == [h EXCEPT !["authorization"] = "Bearer unverified"]

\* lines 23-26
WithToken(h, token) ==
  IF token \notin {"null", "throws"}
    THEN [h EXCEPT !["authorization"] = Bearer(token)] ELSE h

\* lines 29-36: the cookie's value, or a fresh identifier
GuestIdOf(cookie, n) == IF cookie # "" THEN cookie ELSE Uuid(n + 1)

\* line 37
WithGuestId(h, guestId) ==
  IF guestId # "" THEN [h EXCEPT !["x-guest-id"] = guestId] ELSE h

NoFwd == [method |-> "none", headers |-> [k \in HeaderNames |-> NoHeader], body |-> NoBody]

\* the client adds identity headers of its own to the requests it sends
Forges(r) == r.headers["x-guest-id"] # NoHeader

\* the browser sends a request, with the guest_id cookie it holds; one client
\* makes all the requests: the page's own code, or one that forges headers
BrowserSends(m, b, forged) ==
  /\ Len(reqs) < MaxReqs
  /\ (m \in {"GET", "HEAD"}) = (b = NoBody)
  /\ \A i \in 1..Len(reqs) : Forges(reqs[i]) = forged
  /\ reqs' = Append(reqs,
       [pc |-> "inbound", method |-> m, body |-> b,
        headers |-> BrowserHeaders(forged), cookie |-> jar, token |-> "null",
        guestId |-> "", fwd |-> NoFwd, fetches |-> 0, upstream |-> 0,
        status |-> 0, setCookie |-> "", options |-> NoCookie])
  /\ UNCHANGED <<jar, uuids>>
  /\ UNCHANGED pageVars

\* lines 10-46: the handler builds the upstream request and issues it
Handler(i, token) ==
  /\ i \in 1..Len(reqs)
  /\ reqs[i].pc = "inbound"
  /\ token \in TokenOutcomes
  /\ LET r == reqs[i]
         guestId == GuestIdOf(r.cookie, uuids)
         headers == WithGuestId(WithToken(CopyHeaders(r.headers), token), guestId)
         body == IF r.method \in {"GET", "HEAD"} THEN NoBody
                 ELSE FetchBody(ReqText(r.body))
     IN /\ reqs' = [reqs EXCEPT ![i].pc = "forwarded", ![i].token = token,
                                ![i].guestId = guestId,
                                ![i].fetches = r.fetches + 1,
                                ![i].fwd = [method |-> r.method, headers |-> headers,
                                            body |-> body]]
        /\ uuids' = IF r.cookie = "" THEN uuids + 1 ELSE uuids
  /\ UNCHANGED jar
  /\ UNCHANGED pageVars

\* a handler whose fetch follows the backend's redirect: a second upstream
\* request, and the answer of its target relayed
UpstreamRespondsFollows(i, status) ==
  /\ i \in 1..Len(reqs)
  /\ reqs[i].pc = "forwarded"
  /\ reqs' = [reqs EXCEPT ![i].pc = "responded", ![i].upstream = status,
                          ![i].status = IF status = 302 THEN 200 ELSE status,
                          ![i].fetches = IF status = 302 THEN 2 ELSE 1]
  /\ UNCHANGED <<jar, uuids>>
  /\ UNCHANGED pageVars

\* lines 48-65: the backend answers, the handler relays the answer and sets
\* the cookie if the request had none; the browser stores the cookie
UpstreamResponds(i, status) ==
  /\ i \in 1..Len(reqs)
  /\ reqs[i].pc = "forwarded"
  /\ LET setCookie == IF reqs[i].guestId # "" /\ reqs[i].cookie = ""
                        THEN reqs[i].guestId ELSE ""
     IN /\ reqs' = [reqs EXCEPT ![i].pc = "responded", ![i].upstream = status,
                                ![i].status = status,
                                ![i].setCookie = setCookie,
                                ![i].options = IF setCookie # "" THEN CookieOptions
                                               ELSE NoCookie]
        /\ jar' = IF setCookie # "" THEN setCookie ELSE jar
  /\ UNCHANGED uuids
  /\ UNCHANGED pageVars

\* line 41: the fetch of the backend rejects, and so does the handler
UpstreamFails(i) ==
  /\ i \in 1..Len(reqs)
  /\ reqs[i].pc = "forwarded"
  /\ reqs' = [reqs EXCEPT ![i].pc = "failed"]
  /\ UNCHANGED <<jar, uuids>>
  /\ UNCHANGED pageVars

(***************************************************************************)
(* Specifications                                                          *)
(***************************************************************************)
\* one tab; the backend flushes whole events, so reads end on line boundaries
Next ==
  \/ \E t \in Tabs, v \in {<<>>, <<SP>>, <<"hi">>} : SetInput(t, v)
  \/ \E t \in Tabs : HandleSend(t)
  \/ \E t \in Tabs : FetchResponds(t)
  \/ \E t \in Tabs, why \in Failures : StreamFails(t, why)
  \/ \E t \in Tabs, d \in SessionDeliveries : Deliver(t, d)
  \/ \E t \in Tabs : ReadDone(t)
  \/ \E t \in Tabs : HandleStop(t)
  \/ \E t \in Tabs : UrlEffect(t)
  \/ \E t \in Tabs, id \in Ids, ok \in BOOLEAN : HistoryResolves(t, id, ok)
  \/ \E t \in Tabs, c \in Ids \cup {NoId} : UserNavigate(t, c)
  \/ \E t \in Tabs : ReplaceLands(t)

Spec == Init /\ [][Next]_vars

TypeOK ==
  /\ \A t \in Tabs : Len(messages[t]) <= MaxMsgs
  /\ \A t \in Tabs : Len(events[t]) <= MaxQueue
  /\ NumOf(store) \in 0..GuestLimit

\* reader.read() resolves with any non-empty prefix of the bytes received
ReadSome(t) == \E n \in 1..Len(wire[t]) : ReadChunk(t, n)

\* one tab, a signed-in user, no navigation; reads cut the response anywhere
DecodeInit == InitWith({1}, {Absent}) /\ user

DecodeNext ==
  \/ \E t \in Tabs : SetInput(t, <<"hi">>)
  \/ \E t \in Tabs : HandleSend(t)
  \/ \E t \in Tabs : FetchResponds(t)
  \/ \E t \in Tabs, fs \in DecodeBursts : ServerEmit(t, fs)
  \/ \E t \in Tabs : ReadSome(t)
  \/ \E t \in Tabs : ReadDone(t)
  \/ \E t \in Tabs : UrlEffect(t)

DecodeSpec == DecodeInit /\ [][DecodeNext]_vars

\* reader.read() resolves with everything the backend has written
ReadAll(t) == wire[t] # <<>> /\ ReadChunk(t, Len(wire[t]))

\* one tab, a signed-in user, no navigation; every read returns whole events
FrameNext ==
  \/ \E t \in Tabs : SetInput(t, <<"hi">>)
  \/ \E t \in Tabs : HandleSend(t)
  \/ \E t \in Tabs : FetchResponds(t)
  \/ \E t \in Tabs, fs \in DecodeBursts : ServerEmit(t, fs)
  \/ \E t \in Tabs : ReadAll(t)
  \/ \E t \in Tabs : ReadDone(t)
  \/ \E t \in Tabs : UrlEffect(t)

FrameSpec == DecodeInit /\ [][FrameNext]_vars

\* two tabs of one origin, guests or signed in, no navigation, empty answers
GateInit == InitWith(Tabs, {Absent, "x", "1", "2", "3"})

GateNext ==
  \/ \E t \in Tabs, v \in {<<>>, <<"hi">>} : SetInput(t, v)
  \/ \E t \in Tabs : HandleSend(t)
  \/ \E t \in Tabs : FetchResponds(t)
  \/ \E t \in Tabs : ReadDone(t)
  \/ \E t \in Tabs : HandleStop(t)
  \/ \E t \in Tabs : UrlEffect(t)
  \/ \E t \in Tabs : StorageEvent(t)
  \/ SignIn

GateSpec == GateInit /\ [][GateNext]_vars

\* one browser and the proxy: requests overlap freely
ProxyNext ==
  \/ \E m \in Methods, b \in Bodies \cup {NoBody}, forged \in BOOLEAN :
       BrowserSends(m, b, forged)
  \/ \E i \in 1..MaxReqs, token \in Tokens : Handler(i, token)
  \/ \E i \in 1..MaxReqs, status \in Statuses : UpstreamResponds(i, status)
  \/ \E i \in 1..MaxReqs : UpstreamFails(i)

ProxySpec == Init /\ [][ProxyNext]_vars

(***************************************************************************)
(* Properties                                                              *)
(***************************************************************************)
\* the content of the assistant message the stream is writing
InFlightContent(t) ==
  LET i == LastAssistant(messages[t], Len(messages[t]))
  IN IF i = 0 THEN <<>> ELSE messages[t][i].content

\* this step ends the stream of tab t
StreamEnds(t) == run[t].pc # "idle" /\ run'[t].pc = "idle"
\* this step is a handleSend call in tab t / a run of the URL effect in tab t
SendCalled(t) == lastSend'[t] # "none"
EffectRuns(t) == effect[t] # "none" /\ effect'[t] # effect[t]

\* C1: once every byte of the response has been read, the assistant message
\* holds the concatenation of the content deltas the backend wrote, however
\* the bytes were cut into reads
C1_ChunkBoundaryIndependence ==
  \A t \in Tabs :
    (run[t].pc = "reading" /\ wire[t] = <<>>) => InFlightContent(t) = run[t].sentText

\* C2: a Meta frame received with no locator sets the locator and requests
\* the rewrite to c=N, and the URL effect run that the rewrite triggers starts
\* no history fetch and leaves the messages alone
C2_MetaRewriteNotReloaded ==
  [][\A t \in Tabs :
       /\ (run[t].pc = "reading" /\ run[t].conversationId = NoId
             /\ conversationId[t] = NoId /\ conversationId'[t] # NoId)
            => (replacing'[t] = conversationId'[t] /\ suppressUrlLoadRef'[t])
       /\ (effect[t] = "rewrite" /\ EffectRuns(t))
            => (fetches'[t] = fetches[t] /\ messages'[t] = messages[t])]_vars

\* C3: a URL effect run during a stream leaves the messages alone, and when
\* the user removed c during the stream, the effect run that follows the end
\* of the stream clears the messages and the locator
C3_NavigateAwayDeferred ==
  [][\A t \in Tabs :
       /\ (loading[t] /\ EffectRuns(t)) => messages'[t] = messages[t]
       /\ (effect[t] = "termAway" /\ EffectRuns(t))
            => (messages'[t] = <<>> /\ conversationId'[t] = NoId)]_vars

\* C4: a history fetch that resolves for an id other than the current
\* locator leaves the messages alone
C4_StaleHistoryDiscarded ==
  [][\A t \in Tabs, id \in Ids :
       (id \in fetches[t] /\ id \notin fetches'[t] /\ id # conversationId[t])
         => messages'[t] = messages[t]]_vars

\* C5 as claimed: with the persisted counter at 3 or more and nobody signed
\* in, no handleSend call starts a request or appends a message
C5_BlockedOnPersistedCount ==
  [][\A t \in Tabs :
       (~user /\ NumOf(store) >= GuestLimit /\ SendCalled(t))
         => (lastSend'[t] # "sent" /\ run'[t] = run[t] /\ messages'[t] = messages[t])]_vars

\* C5 as amended: with the tab's own copy of the counter at 3 or more and
\* nobody signed in, no handleSend call of that tab starts a request or
\* appends a message
C5_BlockedOnTabCount ==
  [][\A t \in Tabs :
       (~user /\ guestCountState[t] >= GuestLimit /\ SendCalled(t))
         => (lastSend'[t] # "sent" /\ run'[t] = run[t] /\ messages'[t] = messages[t])]_vars

C5_Witness ==
  \E t \in Tabs : lastSend[t] = "alert" /\ ~user /\ guestCountState[t] >= GuestLimit

\* C6: the end of every stream a guest started raises the persisted counter
\* by exactly one
C6_IncrementedOncePerSend ==
  [][\A t \in Tabs :
       (StreamEnds(t) /\ run[t].guest) => NumOf(store') = NumOf(store) + 1]_vars

\* C7: the persisted counter never decreases
C7_CounterNeverDecreases == [][NumOf(store') >= NumOf(store)]_vars

\* C8: when a tab observes the storage notification of a write, its copy of
\* the counter becomes the written value, and the tab is blocked when that
\* value is 3 or more and nobody is signed in
C8_NotificationObserved ==
  [][\A t \in Tabs :
       (events[t] # <<>> /\ events'[t] = Tail(events[t]))
         => /\ guestCountState'[t] = NumOf(Head(events[t]))
            /\ (NumOf(Head(events[t])) >= GuestLimit /\ ~user') => guestBlocked(t)']_vars

\* tab 2 never sent anything, tab 1 did as a guest, and tab 2 is blocked
C8_Witness ==
  /\ ~user /\ lastTerm[1] # "none" /\ lastTerm[2] = "none" /\ messages[2] = <<>>
  /\ events[2] = <<>> /\ guestCountState[2] = GuestLimit /\ guestBlocked(2)

\* C9: handleStop keeps every message that was there, the assistant message
\* of the stream with the content it had
C9_StopKeepsPartialAnswer ==
  [][\A t \in Tabs :
       (StreamEnds(t) /\ lastTerm'[t] = "abort")
         => /\ Len(messages'[t]) >= Len(messages[t])
            /\ SubSeq(messages'[t], 1, Len(messages[t])) = messages[t]]_vars

\* a stopped stream whose answer had received text
C9_Witness ==
  \E t \in Tabs :
    /\ lastTerm[t] = "abort" /\ Len(messages[t]) = 3
    /\ messages[t][2] = Msg("assistant", <<"a">>)
    /\ messages[t][3] = Msg("system", <<"Error: ", "aborted">>)

\* C10 as claimed: after a stop, a send with non-empty input is accepted
C10_SendAcceptedAfterStop ==
  \A t \in Tabs :
    (lastTerm[t] = "abort" /\ Trim(input[t]) # <<>>) => (canSend(t) /\ run[t].pc = "idle")

\* C10 as amended: after a stop, a send with non-empty input is accepted when
\* the user is signed in or the tab's counter, which the stopped attempt has
\* raised, is still below 3
C10_SendAcceptedAfterStopUnlessGated ==
  \A t \in Tabs :
    (lastTerm[t] = "abort" /\ Trim(input[t]) # <<>>
       /\ (user \/ guestCountState[t] < GuestLimit))
      => (canSend(t) /\ run[t].pc = "idle")

C10_Witness ==
  \E t \in Tabs :
    lastTerm[t] = "abort" /\ ~user /\ Trim(input[t]) # <<>> /\ canSend(t)

\* the id a Meta frame brought to a session whose URL the user left alone
AdoptedId(t) == IF replacing[t] # NoId THEN replacing[t] ELSE searchC[t]

\* C11: a send from a session with no locator and no message, whose stream
\* brings a Meta frame and content and then ends with nothing else happening,
\* ends with the locator at the id and the messages [user: u, assistant: the
\* content], and the URL effect run that follows the end leaves them so
C11_SendFromFreshSession ==
  [][\A t \in Tabs :
       /\ (run[t].fresh /\ run[t].pc = "reading" /\ StreamEnds(t)
             /\ lastTerm'[t] = "done" /\ AdoptedId(t) # NoId)
            => /\ conversationId'[t] = AdoptedId(t)
               /\ messages'[t] = <<Msg("user", <<"hi">>),
                                   Msg("assistant", run[t].sentText)>>
       /\ (run[t].fresh /\ lastTerm[t] = "done" /\ AdoptedId(t) # NoId
             /\ effect[t] = "term" /\ EffectRuns(t))
            => /\ conversationId'[t] = conversationId[t]
               /\ messages'[t] = messages[t]
               /\ fetches'[t] = fetches[t]]_vars

\* C12: whenever no stream is active the suppress flag is false, however the
\* last stream ended
C12_FlagClearedOnTermination ==
  \A t \in Tabs : run[t].pc = "idle" => ~suppressUrlLoadRef[t]

\* a stream that set the flag (its URL rewrite is still pending) has ended
\* in an error, and the flag is false
C12_Witness ==
  \E t \in Tabs :
    /\ run[t].pc = "idle" /\ lastTerm[t] = "error" /\ replacing[t] # NoId
    /\ ~suppressUrlLoadRef[t]

\* C13: in a stream that started with no locator, once a Meta frame has set
\* the locator, no later read changes the locator or requests another URL
\* rewrite
C13_LocatorSetOnce ==
  [][\A t \in Tabs :
       (run[t].pc = "reading" /\ run'[t].pc = "reading"
          /\ run[t].conversationId = NoId /\ conversationId[t] # NoId)
         => /\ conversationId'[t] = conversationId[t]
            /\ replacing'[t] \in {replacing[t], NoId}]_vars

\* C14: when the request is rejected or answered with a non-success status,
\* exactly one system message that carries the error is appended, the other
\* messages stay as they were, and the stream is over with loading false
C14_SendFailureReported ==
  [][\A t \in Tabs :
       (run[t].pc = "fetching" /\ StreamEnds(t) /\ lastTerm'[t] = "error")
         => /\ \E why \in Failures :
                 messages'[t] = Append(messages[t], Msg("system", <<"Error: ", why>>))
            /\ ~loading'[t]]_vars

\* a request answered with status 500 has left its error after the two
\* messages of the send
C14_Witness ==
  \E t \in Tabs :
    /\ lastTerm[t] = "error" /\ ~loading[t] /\ run[t].pc = "idle"
    /\ messages[t] = <<Msg("user", <<"hi">>), Msg("assistant", <<>>),
                       Msg("system", <<"Error: ", "Request failed (500)">>)>>

\* C15: handleStop appends no system message: the stop leaves the messages
\* as they were
C15_StopAppendsNoError ==
  [][\A t \in Tabs :
       (StreamEnds(t) /\ lastTerm'[t] = "abort") => messages'[t] = messages[t]]_vars

\* C16: a history fetch that fails leaves the messages as they were
C16_HistoryFailureSilent ==
  [][\A t \in Tabs : lastHistory'[t] = "failed" => messages'[t] = messages[t]]_vars

\* a history fetch has just failed while messages were displayed
C16_Witness ==
  \E t \in Tabs : lastHistory[t] = "failed" /\ messages[t] # <<>>

\* this step is a read that returns everything the backend has written and
\* not yet been read, which is the whole of the events fs
WholeRead(t, fs) ==
  run[t].pc = "reading" /\ wire[t] = EncodeAll(fs) /\ wire'[t] = <<>>

ContentBursts == Bursts({f \in DecodeFrames : f.kind = "content"})
BadBursts == {fs \in DecodeBursts : \E i \in 1..Len(fs) : fs[i].kind = "bad"}

\* C17: a read of whole content events adds to the answer the text of every
\* payload that does not begin with `[model:`, in order, and nothing of a
\* payload that does
C17_ModelTagSkipped ==
  [][\A t \in Tabs, fs \in ContentBursts :
       WholeRead(t, fs)
         => /\ run'[t].assistantBuffer = run[t].assistantBuffer \o TextOf(fs)
            /\ IF TextOf(fs) = <<>> THEN messages'[t] = messages[t]
               ELSE InFlightContent(t)' = run'[t].assistantBuffer]_vars

\* a stream that carried a provider tag shows the text of its other payloads
C17_Witness ==
  \E t \in Tabs :
    /\ run[t].pc = "reading" /\ wire[t] = <<>> /\ "tag" \in run[t].odd
    /\ run[t].sentText # <<>> /\ InFlightContent(t) = run[t].sentText

\* C18: a read of whole events of which one does not parse leaves the stream
\* reading, adds the text of the well-formed ones before and after it, and
\* appends no message
C18_ParseFailureSkipped ==
  [][\A t \in Tabs, fs \in BadBursts :
       WholeRead(t, fs)
         => /\ run'[t].pc = "reading" /\ loading'[t]
            /\ run'[t].assistantBuffer = run[t].assistantBuffer \o TextOf(fs)
            /\ Len(messages'[t]) = Len(messages[t])
            /\ TextOf(fs) # <<>> => InFlightContent(t)' = run'[t].assistantBuffer]_vars

\* a stream that carried a payload that does not parse is still reading and
\* shows the text of its other payloads, with no third message
C18_Witness ==
  \E t \in Tabs :
    /\ run[t].pc = "reading" /\ wire[t] = <<>> /\ "bad" \in run[t].odd
    /\ run[t].sentText # <<>> /\ InFlightContent(t) = run[t].sentText
    /\ Len(messages[t]) = 2

\* the requests the handler has forwarded
Forwarded == {i \in 1..Len(reqs) : reqs[i].pc # "inbound"}

\* C19: every request the proxy forwards for the browser carries the same
\* x-guest-id, and a request that came with a guest_id cookie carries the
\* cookie's value
C19_SameGuestIdAcrossRequests ==
  /\ \A i, j \in Forwarded :
       reqs[i].fwd.headers["x-guest-id"] = reqs[j].fwd.headers["x-guest-id"]
  /\ \A i \in Forwarded :
       reqs[i].cookie # "" => reqs[i].fwd.headers["x-guest-id"] = reqs[i].cookie

\* C20: every forwarded request carries an x-guest-id, and carries the
\* session token as a bearer credential whenever getToken resolved one
C20_IdentityHeadersAttached ==
  \A i \in Forwarded :
    /\ reqs[i].fwd.headers["x-guest-id"] # NoHeader
    /\ reqs[i].token \notin {"null", "throws"}
         => reqs[i].fwd.headers["authorization"] = Bearer(reqs[i].token)

\* a request that came with a credential of its own was forwarded with the
\* session token and a guest id
C20_Witness ==
  \E i \in Forwarded :
    /\ reqs[i].token = "tok"
    /\ reqs[i].headers["authorization"] = Bearer("forged")
    /\ reqs[i].fwd.headers["authorization"] = Bearer("tok")
    /\ reqs[i].fwd.headers["x-guest-id"] = "u1"

\* the requests the handler has answered
Responded == {i \in 1..Len(reqs) : reqs[i].pc = "responded"}

\* C21: the response sets the guest_id cookie exactly when the request came
\* without one, to the identifier forwarded as x-guest-id, with path "/", the
\* lax cross-site policy and an expiry of more than one year
C21_CookieSetWhenAbsent ==
  \A i \in Responded :
    /\ reqs[i].cookie # "" => reqs[i].setCookie = ""
    /\ reqs[i].cookie = "" =>
         /\ reqs[i].setCookie # ""
         /\ reqs[i].setCookie = reqs[i].fwd.headers["x-guest-id"]
         /\ reqs[i].options.path = "/"
         /\ reqs[i].options.sameSite = "lax"
         /\ reqs[i].options.maxAge >= 2 * (60 * 60 * 24 * 365)

\* C22: every inbound request the handler has taken up has exactly one
\* upstream request, failed or not, and the status relayed to the browser is
\* the status the backend answered, a redirect included
C22_OneUpstreamRequest ==
  \A i \in 1..Len(reqs) :
    /\ reqs[i].fetches = IF reqs[i].pc = "inbound" THEN 0 ELSE 1
    /\ reqs[i].pc = "responded" => reqs[i].status = reqs[i].upstream

\* a redirect of the backend was relayed, and a failed upstream request was
\* left at its one attempt
C22_Witness ==
  /\ \E i \in Responded :
       reqs[i].upstream = 302 /\ reqs[i].status = 302 /\ reqs[i].fetches = 1
  /\ \E i \in 1..Len(reqs) : reqs[i].pc = "failed" /\ reqs[i].fetches = 1

\* C23: no request ends with the handler rejecting: an upstream request that
\* failed at the network level is answered by the handler
C23_UpstreamFailureAnswered ==
  \A i \in 1..Len(reqs) : reqs[i].pc # "failed"

\* C24: the forwarded method is the inbound method; GET and HEAD are
\* forwarded without a body, every other method with the inbound body
C24_BodyAndMethodForwarded ==
  \A i \in Forwarded :
    /\ reqs[i].fwd.method = reqs[i].method
    /\ reqs[i].fwd.body = IF reqs[i].method \in {"GET", "HEAD"} THEN NoBody
                           ELSE reqs[i].body

\* this step is a run of the URL effect in tab t with the guard of line 105
\* closed / open
EffectIgnored(t) == EffectRuns(t) /\ (suppressUrlLoadRef[t] \/ loading[t])
EffectIdle(t) == EffectRuns(t) /\ ~suppressUrlLoadRef[t] /\ ~loading[t]

\* C25: a run of the URL effect while the suppression flag is set or a stream
\* is active starts no history fetch and leaves the locator and the messages
\* as they were
C25_NavigationIgnoredWhileStreaming ==
  [][\A t \in Tabs :
       EffectIgnored(t) => /\ fetches'[t] = fetches[t]
                           /\ conversationId'[t] = conversationId[t]
                           /\ messages'[t] = messages[t]]_vars

\* during a stream the URL names a conversation other than the session's, the
\* effect has run, and nothing was fetched
C25_Witness ==
  \E t \in Tabs :
    /\ loading[t] /\ run[t].pc = "reading" /\ effect[t] = "none"
    /\ searchC[t] # NoId /\ searchC[t] # conversationId[t]
    /\ fetches[t] = {} /\ Len(messages[t]) = 2

\* C26: an idle run of the URL effect with a c that is present and differs
\* from the locator sets the locator to c and starts the fetch of its history;
\* a fetch that succeeds replaces the messages by the returned list read from
\* its last entry to its first
C26_HistoryLoadedInOrder ==
  [][\A t \in Tabs :
       /\ (EffectIdle(t) /\ searchC[t] # NoId /\ searchC[t] # conversationId[t])
            => (conversationId'[t] = searchC[t] /\ searchC[t] \in fetches'[t])
       /\ \A id \in Ids :
            (id \in fetches[t] /\ id \notin fetches'[t] /\ lastHistory'[t] = "loaded")
              => /\ Len(messages'[t]) = Len(HistoryOf(id))
                 /\ \A k \in 1..Len(HistoryOf(id)) :
                      messages'[t][k] = HistoryOf(id)[Len(HistoryOf(id)) + 1 - k]]_vars

\* the history of the conversation the user opened has just been loaded: the
\* user's message first, the answer after it
C26_Witness ==
  \E t \in Tabs :
    /\ lastHistory[t] = "loaded" /\ conversationId[t] = 1 /\ searchC[t] = 1
    /\ messages[t] = <<Msg("user", <<"hi">>), Msg("assistant", <<"b">>)>>

\* C27: an idle run of the URL effect with no c clears the messages and the
\* locator when a locator was set; with no c and no locator, or with c equal
\* to the locator, it changes neither and starts no fetch
C27_AbsentLocatorClears ==
  [][\A t \in Tabs :
       /\ (EffectIdle(t) /\ searchC[t] = NoId /\ conversationId[t] # NoId)
            => (messages'[t] = <<>> /\ conversationId'[t] = NoId)
       /\ (EffectIdle(t) /\ searchC[t] = conversationId[t])
            => /\ messages'[t] = messages[t]
               /\ conversationId'[t] = conversationId[t]
               /\ fetches'[t] = fetches[t]]_vars

\* the clearing branch has just run on a session that was idle
C27_Witness ==
  \E t \in Tabs :
    /\ effect[t] = "self" /\ conversationId[t] = NoId /\ searchC[t] = NoId
    /\ messages[t] = <<>> /\ ~loading[t]

\* this step applies content deltas in tab t; the text they add to the buffer
DeltaApplied(t) ==
  /\ run[t].pc = "reading" /\ run'[t].pc = "reading"
  /\ run'[t].assistantBuffer # run[t].assistantBuffer
DeltaText(t) ==
  SubSeq(run'[t].assistantBuffer, Len(run[t].assistantBuffer) + 1,
         Len(run'[t].assistantBuffer))

\* C28: every step of a stream that applies content deltas leaves the
\* in-flight assistant message with its previous content followed by the text
\* of the deltas, in the order received
C28_AnswerOnlyGrows ==
  [][\A t \in Tabs :
       DeltaApplied(t) => InFlightContent(t)' = InFlightContent(t) \o DeltaText(t)]_vars

\* C29: a step that applies content deltas keeps the length of the messages
\* and the role of every entry, and changes no entry but the assistant
\* message that has no assistant message after it
C29_OnlyLastAssistantChanges ==
  [][\A t \in Tabs :
       DeltaApplied(t) =>
         /\ Len(messages'[t]) = Len(messages[t])
         /\ \A k \in 1..Len(messages[t]) :
              /\ messages'[t][k].role = messages[t][k].role
              /\ messages'[t][k] # messages[t][k] =>
                   /\ messages[t][k].role = "assistant"
                   /\ \A j \in (k + 1)..Len(messages[t]) :
                        messages[t][j].role # "assistant"]_vars

\* the second answer of a session has received its text, and the first
\* answer is as it was
C29_Witness ==
  \E t \in Tabs :
    /\ run[t].pc = "reading" /\ run[t].assistantBuffer = <<"a">>
    /\ Len(messages[t]) = 4
    /\ messages[t][2] = Msg("assistant", <<>>)
    /\ messages[t][4] = Msg("assistant", <<"a">>)

\* a stream of tab t is active
StreamActive(t) == run[t].pc # "idle"

\* C30: the loading flag is set as long as a stream is active, and a
\* handleSend call made while a stream is active issues no request and leaves
\* the stream and the messages as they are, so a session never has two streams
C30_OneStreamPerSession ==
  [][\A t \in Tabs :
       /\ StreamActive(t) => loading[t]
       /\ (StreamActive(t) /\ SendCalled(t))
            => /\ lastSend'[t] # "sent"
               /\ run'[t] = run[t]
               /\ messages'[t] = messages[t]]_vars

\* a send with text typed, made by a caller the guest gate lets through, has
\* just been rejected because the stream is still being read
C30_Witness ==
  \E t \in Tabs :
    /\ lastSend[t] = "ignored" /\ run[t].pc = "reading" /\ loading[t]
    /\ Trim(input[t]) # <<>> /\ ~guestBlocked(t)
    /\ Len(messages[t]) = 2

\* C31: the step that ends a stream, by a stop as by the end of the response,
\* clears the suppression flag and the loading flag, dispatches the refresh
\* notification and, for a guest, raises the counter by one in the tab and in
\* the store
C31_StopRunsSameCleanup ==
  [][\A t \in Tabs :
       (StreamEnds(t) /\ lastTerm'[t] \in {"abort", "done"})
         => /\ ~suppressUrlLoadRef'[t]
            /\ ~loading'[t]
            /\ refreshed'[t] = "dispatched"
            /\ IF user THEN store' = store /\ guestCountState' = guestCountState
               ELSE /\ guestCountState'[t] = guestCountState[t] + 1
                    /\ store' = StrOf(guestCountState[t] + 1)]_vars

\* a guest has just stopped a stream that had set the suppression flag: the
\* flag is cleared, the notification dispatched, the counter raised to the limit
C31_Witness ==
  \E t \in Tabs :
    /\ lastTerm[t] = "abort" /\ refreshed[t] = "dispatched" /\ run[t].pc = "idle"
    /\ replacing[t] # NoId /\ ~suppressUrlLoadRef[t]
    /\ ~user /\ guestCountState[t] = GuestLimit /\ store = StrOf(GuestLimit)

\* this step is a read, in tab t, of a chunk that holds a Meta frame
MetaRead(t) == run'[t].pc = "reading" /\ refreshed'[t] # "none"

\* C32: a read that brings a Meta frame to a stream whose call started with a
\* locator dispatches no notification and leaves the locator, the URL, the
\* pending URL rewrite and the suppression flag as they were, and the
\* messages too unless the same read brings content
C32_MetaIgnoredWithLocator ==
  [][\A t \in Tabs :
       (MetaRead(t) /\ run[t].conversationId # NoId)
         => /\ refreshed'[t] = "ignored"
            /\ conversationId'[t] = conversationId[t]
            /\ searchC'[t] = searchC[t]
            /\ replacing'[t] = replacing[t]
            /\ suppressUrlLoadRef'[t] = suppressUrlLoadRef[t]
            /\ ~DeltaApplied(t) => messages'[t] = messages[t]]_vars

\* the stream of a send made in conversation 1 has just read a Meta frame and
\* nothing else: the session is as the send left it
C32_Witness ==
  \E t \in Tabs :
    /\ refreshed[t] = "ignored" /\ run[t].pc = "reading"
    /\ run[t].conversationId = 1 /\ conversationId[t] = 1 /\ searchC[t] = 1
    /\ replacing[t] = NoId /\ ~suppressUrlLoadRef[t]
    /\ run[t].assistantBuffer = <<>>
    /\ messages[t] = <<Msg("user", <<"hi">>), Msg("assistant", <<>>)>>

\* the requests whose getToken call threw
Unverified == {i \in 1..Len(reqs) : reqs[i].pc # "inbound" /\ reqs[i].token = "throws"}

\* C33: a request whose session token could not be verified is forwarded, with
\* the guest identifier resolved for it as x-guest-id and with no credential
\* attached by the proxy: its authorization header is the inbound one
C33_UnverifiedForwardedAsGuest ==
  \A i \in Unverified :
    /\ reqs[i].fetches = 1
    /\ reqs[i].guestId # ""
    /\ reqs[i].fwd.headers["x-guest-id"] = reqs[i].guestId
    /\ reqs[i].fwd.headers["authorization"] = reqs[i].headers["authorization"]

\* a signed-in user's request whose token verification threw was forwarded and
\* answered, as guest u1 and with no authorization header
C33_Witness ==
  \E i \in Unverified :
    /\ user /\ reqs[i].pc = "responded" /\ reqs[i].status = 200
    /\ reqs[i].fwd.headers["x-guest-id"] = "u1"
    /\ reqs[i].fwd.headers["authorization"] = NoHeader

\* C34: the identity headers of a forwarded request are a function of the
\* session token and the guest identifier resolved from the cookie alone: the
\* authorization header is the token's credential or absent, whatever headers
\* the browser sent, and x-guest-id is the resolved identifier
C34_IdentityFromSessionAndCookie ==
  \A i \in Forwarded :
    /\ reqs[i].fwd.headers["x-guest-id"] = reqs[i].guestId
    /\ reqs[i].fwd.headers["authorization"] =
         IF reqs[i].token \in {"null", "throws"} THEN NoHeader
         ELSE Bearer(reqs[i].token)

\* C35: a history fetch that succeeds while a stream is active leaves the
\* messages as they were, the two messages of the send included
C35_HistoryNotLoadedMidStream ==
  [][\A t \in Tabs :
       (StreamActive(t) /\ lastHistory'[t] = "loaded") => messages'[t] = messages[t]]_vars

\* an assistant message as only a history holds it
FromHistory(m) ==
  m.role = "assistant" /\ \E id \in Ids : \E k \in 1..Len(HistoryOf(id)) : m = HistoryOf(id)[k]

\* the messages are the history of conversation c, or nothing, followed by
\* messages that sends have appended
BelongsTo(msgs, c) ==
  LET H == IF c = NoId THEN <<>> ELSE Reverse(HistoryOf(c))
      Sent(n) == \A k \in (n + 1)..Len(msgs) : ~FromHistory(msgs[k])
  IN \/ Sent(0)
     \/ Len(msgs) >= Len(H) /\ SubSeq(msgs, 1, Len(H)) = H /\ Sent(Len(H))

\* C36: with no stream active, no history fetch in flight and no effect run
\* due, the messages belong to the conversation the locator names
C36_MessagesMatchLocator ==
  \A t \in Tabs :
    (~StreamActive(t) /\ fetches[t] = {} /\ effect[t] = "none")
      => BelongsTo(messages[t], conversationId[t])

\* C37: after the end of a stream that started in a fresh session and adopted
\* an id, with no navigation by the user since, a run of the URL effect leaves
\* the messages and the locator as they were and starts no history fetch
C37_AdoptedSessionKept ==
  [][\A t \in Tabs :
       (run[t].fresh /\ ~StreamActive(t) /\ lastTerm[t] # "none"
          /\ conversationId[t] # NoId /\ EffectRuns(t))
         => /\ messages'[t] = messages[t]
            /\ conversationId'[t] = conversationId[t]
            /\ fetches'[t] = fetches[t]]_vars

\* this step is a handleSend call in tab t that one of the guards rejects
SendRejected(t) ==
  SendCalled(t) /\ (Trim(input[t]) = <<>> \/ loading[t] \/ guestBlocked(t))

\* C38: a handleSend call with empty or whitespace-only input, during a
\* stream, or with the guest gate closed issues no request, dispatches no
\* notification and leaves the messages, the locator, the loading flag, the
\* suppression flag and the guest counter as they were
C38_RejectedSendChangesNothing ==
  [][\A t \in Tabs :
       SendRejected(t)
         => /\ lastSend'[t] # "sent"
            /\ run' = run
            /\ refreshed'[t] = "none"
            /\ messages' = messages
            /\ conversationId' = conversationId
            /\ loading' = loading
            /\ suppressUrlLoadRef' = suppressUrlLoadRef
            /\ guestCountState' = guestCountState
            /\ store' = store]_vars

\* a send of a blank input has just been rejected in an idle session that
\* shows a conversation and whose caller the guest gate lets through
C38_Witness ==
  \E t \in Tabs :
    /\ lastSend[t] = "ignored" /\ input[t] = <<SP>>
    /\ ~loading[t] /\ ~guestBlocked(t) /\ ~StreamActive(t)
    /\ conversationId[t] # NoId /\ messages[t] # <<>>

====
